---- MODULE Spec2Model ----
(***************************************************************************)
(* The autoscaling demonstration harness of                                *)
(* src/load-generator/demo_scenarios.py: the orchestrator process (main),  *)
(* the monitor processes it spawns, the load phase of each scenario and    *)
(* the kubectl status queries.                                             *)
(*                                                                         *)
(* Time is counted in ticks of 0.1 s (the shortest delay of the program,   *)
(* asyncio.sleep(0.1)).  Every sleeping process holds a countdown timer;   *)
(* Tick moves time to the next expiry.  A statement that does not wait     *)
(* takes no time: time passes only when every process waits.               *)
(*                                                                         *)
(* A text is a sequence of one-character strings.                          *)
(***************************************************************************)
EXTENDS Integers, Sequences, FiniteSets, TLC

VARIABLES
    cmd,          \* args.command
    argDuration,  \* args.duration, in seconds
    urlGiven,     \* --url is on the command line
    argContext,   \* args.kubectl_context ("": not given)
    mainPc,       \* where main() is
    cur,          \* the scenario main() is in (0: none)
    scnPc,        \* per scenario: where the scenario coroutine is
    loadTimer,    \* ticks until the load generator has run its --duration
    loadCode,     \* how the last load phase ended
    burstPc,      \* where cpu_intensive_load() is
    launched,     \* tasks created by cpu_intensive_load()
    settled,      \* tasks that are done
    failed,       \* tasks that are done with an exception
    staggerTimer, \* ticks left of asyncio.sleep(0.1)
    coolTimer,    \* ticks left of asyncio.sleep(30)
    sinceReturn,  \* ticks since the last scenario returned (up to the cooldown)
    stopSent,     \* per scenario: monitor_process.terminate() was called
    abortCause,   \* the exception that ended main(), "" if none
    monPc,        \* per monitor process: where monitor_scaling() is
    monCall,      \* per monitor: the kind of the kubectl run in progress
    monPods,      \* per monitor: pod_count of the tick in progress
    monSample,    \* per monitor: the status line of the last tick, once printed
    monElapsed,   \* per monitor: time.time() - start_time, in ticks
    monTimer,     \* per monitor: ticks left of time.sleep(10)
    monSig,       \* per monitor: a SIGTERM is sent and not yet delivered
    monDur,       \* per monitor: --duration, in seconds
    monKubectl,   \* per monitor: self.kubectl_cmd of its process
    qPc,          \* status query under test: "ready", then what was applied
    qRun,         \* status query under test: what kubectl does
    qRes,         \* status query under test: the result
    rPc,          \* report under test: "ready", then "done"
    rFiles,       \* report under test: the results file of scenarios 1..3
    rRes,         \* report under test: how generate_demo_report ended
    reqPc,        \* web service, per request slot: where the handler is
    req,          \* web service, per slot: endpoint, body and task id
    conn,         \* web service, per slot: the handler's local `conn'
    resp,         \* web service, per slot: the status of the response (0: none)
    dbFailed,     \* web service, per slot: the database failed this request
    gauge,        \* web service: ACTIVE_CONNECTIONS
    tasks,        \* web service: the ids of the rows of table tasks
    nextId,       \* web service: the next value of the SERIAL id
    gcPc,         \* get_connection, per caller: where the call is
    gcAttempt,    \* get_connection, per caller: the loop variable `attempt'
    gcTimer,      \* get_connection, per caller: seconds left of time.sleep
    gcTried,      \* get_connection, per caller: what each psycopg2.connect did
    gcWaited      \* get_connection, per caller: seconds spent in time.sleep

vars == <<cmd, argDuration, urlGiven, argContext, mainPc, cur, scnPc, loadTimer, loadCode, burstPc,
          launched, settled, failed, staggerTimer, coolTimer, sinceReturn,
          stopSent, abortCause,
          monPc, monCall, monPods, monSample, monElapsed, monTimer, monSig,
          monDur, monKubectl, qPc, qRun, qRes, rPc, rFiles, rRes,
          reqPc, req, conn, resp, dbFailed, gauge, tasks, nextId,
          gcPc, gcAttempt, gcTimer, gcTried, gcWaited>>

mainVars == <<cmd, argDuration, urlGiven, argContext, mainPc, cur, scnPc, loadTimer, loadCode,
              burstPc, launched, settled, failed, staggerTimer, coolTimer,
              sinceReturn, stopSent, abortCause>>

monVars == <<monPc, monCall, monPods, monSample, monElapsed, monTimer,
             monSig, monDur, monKubectl>>

qVars == <<qPc, qRun, qRes>>

repVars == <<rPc, rFiles, rRes>>

appVars == <<reqPc, req, conn, resp, dbFailed, gauge, tasks, nextId>>

gcVars == <<gcPc, gcAttempt, gcTimer, gcTried, gcWaited>>

(***************************************************************************)
(* Bounds of the model.                                                    *)
(***************************************************************************)
\* The requests the web service handles at once.
MaxRequests == 2

\* The most rows table tasks is given.
MaxTasks == 2

\* The most connections that are left open.
MaxLeaks == 2

\* The most results in a results file the report is tried on.
MaxResults == 2

\* The longest kubectl output the status query is tried on.
MaxOut == 5

\* The largest --duration (seconds) tried for the `monitor' command, besides
\* the default.
MaxArgSeconds == 25

(***************************************************************************)
(* Numbers of the program.                                                 *)
(***************************************************************************)
TicksPerSecond == 10
PollInterval == 10
Cooldown == 30
BurstCount == 50
StaggerTicks == 1
DefaultDuration == 300
Scenario1Duration == 600
Scenario2Duration == 480
Scenario3Duration == 300
Scenario4MonitorDuration == 180

Ticks(seconds) == seconds * TicksPerSecond

Min(S) == CHOOSE x \in S : \A y \in S : x <= y

Max2(a, b) == IF a >= b THEN a ELSE b

(***************************************************************************)
(* Texts: str.strip, str.split, int().                                     *)
(***************************************************************************)
LF == "LF"

Whitespace == {LF, " "}

Digits == {"0", "1", "2", "3", "4", "5", "6", "7", "8", "9"}

DigitVal(c) ==
    CASE c = "0" -> 0 [] c = "1" -> 1 [] c = "2" -> 2 [] c = "3" -> 3
      [] c = "4" -> 4 [] c = "5" -> 5 [] c = "6" -> 6 [] c = "7" -> 7
      [] c = "8" -> 8 [] c = "9" -> 9

RECURSIVE LStrip(_)
LStrip(s) ==
    IF s # <<>> /\ Head(s) \in Whitespace THEN LStrip(Tail(s)) ELSE s

RECURSIVE RStrip(_)
RStrip(s) ==
    IF s # <<>> /\ s[Len(s)] \in Whitespace
    THEN RStrip(SubSeq(s, 1, Len(s) - 1))
    ELSE s

\* str.strip()
Strip(s) == RStrip(LStrip(s))

\* str.split(sep): always at least one part
RECURSIVE Split(_, _)
Split(s, sep) ==
    IF \E i \in 1..Len(s) : s[i] = sep
    THEN LET i == Min({j \in 1..Len(s) : s[j] = sep})
         IN  <<SubSeq(s, 1, i - 1)>> \o Split(SubSeq(s, i + 1, Len(s)), sep)
    ELSE <<s>>

RECURSIVE DigitsValue(_)
DigitsValue(s) ==
    IF s = <<>> THEN 0
    ELSE 10 * DigitsValue(SubSeq(s, 1, Len(s) - 1)) + DigitVal(s[Len(s)])

\* int(s) succeeds: whitespace around, an optional sign, then digits only
IsIntText(s) ==
    LET t == Strip(s)
        u == IF t # <<>> /\ Head(t) \in {"+", "-"} THEN Tail(t) ELSE t
    IN  u # <<>> /\ \A i \in 1..Len(u) : u[i] \in Digits

\* int(s), where it succeeds
IntOf(s) ==
    LET t == Strip(s)
    IN  IF t # <<>> /\ Head(t) = "-" THEN 0 - DigitsValue(Tail(t))
        ELSE IF t # <<>> /\ Head(t) = "+" THEN DigitsValue(Tail(t))
        ELSE DigitsValue(t)

(***************************************************************************)
(* The status query: run_kubectl, get_pod_count, get_hpa_status.           *)
(*                                                                         *)
(* What a kubectl run does is a record [kind, out]: kind "ok" (exit 0 with *)
(* stdout `out'), "nonzero" (a non-zero exit), "nolaunch" (the command     *)
(* cannot be started: subprocess.run raises FileNotFoundError) or "hang"   *)
(* (the command never exits: subprocess.run is given no timeout).          *)
(***************************************************************************)
RunKinds == {"ok", "nonzero", "nolaunch", "hang"}

\* AutoscalingDemo.__init__: self.kubectl_cmd for a context ("": None or empty)
kubectl_cmd(kubectl_context) ==
    IF kubectl_context # "" THEN <<"kubectl", "--context", kubectl_context>>
    ELSE <<"kubectl">>

\* How a call ends: it returns a value, raises, or never returns
Returned(v) == [status |-> "returned", exc |-> "", value |-> v]

Raises(exc) == [status |-> "raised", exc |-> exc, value |-> <<>>]

Blocked == [status |-> "blocked", exc |-> "", value |-> <<>>]

\* run_kubectl: "" on CalledProcessError, and on that exception only
run_kubectl(run) ==
    CASE run.kind = "ok" -> Returned(Strip(run.out))
      [] run.kind = "nonzero" -> Returned(<<>>)
      [] run.kind = "nolaunch" -> Raises("FileNotFoundError")
      [] OTHER -> Blocked

get_pod_count(run) ==
    LET r == run_kubectl(run)
    IN  IF r.status # "returned" THEN r
        ELSE Returned(IF r.value # <<>> THEN Len(Split(r.value, LF)) ELSE 0)

ZeroHpa == [current_replicas |-> 0, desired_replicas |-> 0, cpu_utilization |-> 0]

\* Every entry read from the first part
HpaFieldFirst(parts, i) ==
    IF Len(parts) >= i /\ parts[i] # <<>> THEN IntOf(parts[1]) ELSE 0

\* One entry of the dict get_hpa_status builds: int(parts[i]), or 0
HpaField(parts, i) ==
    IF Len(parts) >= i /\ parts[i] # <<>> THEN IntOf(parts[i]) ELSE 0

\* int(parts[i]) is evaluated and raises ValueError
HpaFieldRaises(parts, i) ==
    Len(parts) >= i /\ parts[i] # <<>> /\ ~IsIntText(parts[i])

get_hpa_status(run) ==
    LET r == run_kubectl(run)
    IN  IF r.status # "returned" THEN r
        ELSE IF r.value = <<>> THEN Returned(ZeroHpa)
        ELSE LET parts == Split(r.value, ",")
             IN  IF \E i \in 1..3 : HpaFieldRaises(parts, i)
                 THEN Raises("ValueError")
                 ELSE Returned([current_replicas |-> HpaField(parts, 1),
                                desired_replicas |-> HpaField(parts, 2),
                                cpu_utilization |-> HpaField(parts, 3)])

\* The comparisons of the label the wrong way round
StatusLabelSwapped(hpa) ==
    IF hpa.desired_replicas < hpa.current_replicas THEN "Scaling Up"
    ELSE IF hpa.desired_replicas > hpa.current_replicas THEN "Scaling Down"
    ELSE "Stable"

\* The status label of monitor_scaling
StatusLabel(hpa) ==
    IF hpa.desired_replicas > hpa.current_replicas THEN "Scaling Up"
    ELSE IF hpa.desired_replicas < hpa.current_replicas THEN "Scaling Down"
    ELSE "Stable"


(***************************************************************************)
(* The monitor processes.  Monitor 0 is monitor_scaling() run by the       *)
(* `monitor' command in the process of main(); monitor k (1..4) is the     *)
(* process scenario k spawns with Popen, which runs the same command.      *)
(***************************************************************************)
Scenarios == 1..4

Monitors == 0..4

NoRun == [kind |-> "none", out |-> <<>>]

\* What kubectl prints in the monitors of the harness when it exits with 0:
\* one line that is no scaling-policy status, or the status "1,2,1".  monCall
\* holds the kind of the run in progress; a run that ends ends within the tick
\* it began.
MonitorOutputs == { <<"x">>, <<"1", ",", "2", ",", "1">> }

\* The runs of kind `kind'
RunsOf(kind) ==
    IF kind = "ok" THEN {[kind |-> "ok", out |-> o] : o \in MonitorOutputs}
    ELSE {[kind |-> kind, out |-> <<>>]}

NoSample == [pods |-> 0, cpu |-> 0, desired |-> 0, status |-> "none"]

Alive(m) == monPc[m] \in {"init", "pods", "hpa", "sleep"}

\* The process ends: its memory is gone, `how' is all that is left of it
MonitorEnds(m, how) ==
    /\ monPc' = [monPc EXCEPT ![m] = how]
    /\ monCall' = [monCall EXCEPT ![m] = "none"]
    /\ monPods' = [monPods EXCEPT ![m] = 0]
    /\ monSample' = [monSample EXCEPT ![m] = NoSample]
    /\ monElapsed' = [monElapsed EXCEPT ![m] = 0]
    /\ monTimer' = [monTimer EXCEPT ![m] = 0]
    /\ monSig' = [monSig EXCEPT ![m] = FALSE]
    /\ UNCHANGED <<monDur, monKubectl>>

\* monitor_scaling is over, by its return ("") or by an exception: in monitor 0
\* it is main() that goes on or ends
MainAfterMonitor(m, exc) ==
    IF m = 0
    THEN /\ mainPc' = (IF exc = "" THEN "done" ELSE "aborted")
         /\ abortCause' = exc
         /\ UNCHANGED <<cmd, argDuration, urlGiven, argContext, cur, scnPc, loadTimer, loadCode,
                        burstPc, launched, settled, failed, staggerTimer,
                        coolTimer, sinceReturn, stopSent>>
    ELSE UNCHANGED mainVars

\* while time.time() - start_time < duration
LoopContinues(m) == monElapsed[m] < Ticks(monDur[m])

\* A SIGTERM that is sent reaches the process before it starts another
\* kubectl run; until it does, the process may end the statement it is in
CanStartRun(m) == ~monSig[m]

\* The head of the loop: on entry and after each time.sleep(10).  When the
\* loop goes on, get_pod_count starts its kubectl run.
MonitorLoop(m) ==
    /\ \/ monPc[m] = "init"
       \/ monPc[m] = "sleep" /\ monTimer[m] = 0
    /\ CanStartRun(m)
    /\ IF LoopContinues(m)
       THEN /\ \E kind \in RunKinds : monCall' = [monCall EXCEPT ![m] = kind]
            /\ monPc' = [monPc EXCEPT ![m] = "pods"]
            /\ monSample' = [monSample EXCEPT ![m] = NoSample]
            /\ UNCHANGED <<monPods, monElapsed, monTimer, monSig, monDur, monKubectl>>
            /\ UNCHANGED mainVars
       ELSE /\ MonitorEnds(m, "exited")
            /\ MainAfterMonitor(m, "")
    /\ UNCHANGED <<qVars, repVars, appVars, gcVars>>

\* get_pod_count returns or raises; get_hpa_status starts its kubectl run
MonitorPods(m) ==
    /\ monPc[m] = "pods"
    /\ CanStartRun(m)
    /\ \E run \in RunsOf(monCall[m]) :
       LET r == get_pod_count(run)
       IN  /\ r.status # "blocked"
           /\ IF r.status = "raised"
              THEN /\ MonitorEnds(m, "crashed")
                   /\ MainAfterMonitor(m, r.exc)
              ELSE /\ monPods' = [monPods EXCEPT ![m] = r.value]
                   /\ \E kind \in RunKinds : monCall' = [monCall EXCEPT ![m] = kind]
                   /\ monPc' = [monPc EXCEPT ![m] = "hpa"]
                   /\ UNCHANGED <<monSample, monElapsed, monTimer, monSig, monDur, monKubectl>>
                   /\ UNCHANGED mainVars
    /\ UNCHANGED <<qVars, repVars, appVars, gcVars>>

\* The status line of one tick
StatusLine(pods, hpa) ==
    [pods |-> pods, cpu |-> hpa.cpu_utilization,
     desired |-> hpa.desired_replicas, status |-> StatusLabel(hpa)]

\* get_hpa_status returns or raises; the status line is printed and
\* time.sleep(10) begins
MonitorHpa(m) ==
    /\ monPc[m] = "hpa"
    /\ \E run \in RunsOf(monCall[m]) :
       LET r == get_hpa_status(run)
       IN  /\ r.status # "blocked"
           /\ IF r.status = "raised"
              THEN /\ MonitorEnds(m, "crashed")
                   /\ MainAfterMonitor(m, r.exc)
              ELSE /\ monSample' = [monSample EXCEPT ![m] = StatusLine(monPods[m], r.value)]
                   /\ monPods' = [monPods EXCEPT ![m] = 0]
                   /\ monCall' = [monCall EXCEPT ![m] = "none"]
                   /\ monTimer' = [monTimer EXCEPT ![m] = Ticks(PollInterval)]
                   /\ monPc' = [monPc EXCEPT ![m] = "sleep"]
                   /\ UNCHANGED <<monElapsed, monSig, monDur, monKubectl>>
                   /\ UNCHANGED mainVars
    /\ UNCHANGED <<qVars, repVars, appVars, gcVars>>

\* The step of monitor m in which it prints a status line
Emits(m) == monPc[m] = "hpa" /\ monPc'[m] = "sleep"

\* SIGTERM reaches the process, whose default action ends it
Deliver(m) ==
    /\ monSig[m]
    /\ Alive(m)
    /\ MonitorEnds(m, "killed")
    /\ UNCHANGED mainVars
    /\ UNCHANGED <<qVars, repVars, appVars, gcVars>>

\* A monitor has a step to take that does not wait
MonitorUrgent(m) ==
    \/ monPc[m] = "init"
    \/ monPc[m] = "sleep" /\ monTimer[m] = 0
    \/ monPc[m] \in {"pods", "hpa"} /\ monCall[m] # "hang"
    \/ monSig[m] /\ Alive(m)


(***************************************************************************)
(* main() and the scenarios.                                               *)
(***************************************************************************)
Commands == {"scenario1", "scenario2", "scenario3", "scenario4", "all",
             "monitor", "report"}

\* A word that is none of the choices of `command'
InvalidCommands == {"bogus"}

\* A parser whose --url is not required
ArgsAcceptedUrlOptional == cmd \in Commands

\* parse_args accepts the command line: the command is one of the choices and
\* the required --url is given
ArgsAccepted == cmd \in Commands /\ urlGiven

\* args = parser.parse_args(): on a command line it does not accept, argparse
\* prints the usage and ends the process with sys.exit(2)
ParseArgs ==
    /\ mainPc = "parse"
    /\ mainPc' = (IF ArgsAccepted THEN "dispatch" ELSE "usage")
    /\ UNCHANGED <<cmd, argDuration, urlGiven, argContext, cur, scnPc, loadTimer,
                   loadCode, burstPc, launched, settled, failed, staggerTimer,
                   coolTimer, sinceReturn, stopSent, abortCause>>
    /\ UNCHANGED monVars
    /\ UNCHANGED <<qVars, repVars, appVars, gcVars>>

\* The exit status of the process of main(), -1 while it runs
ExitStatus ==
    CASE mainPc = "done" -> 0
      [] mainPc = "aborted" -> 1
      [] mainPc = "usage" -> 2
      [] OTHER -> 0 - 1

\* --duration of the monitor a scenario spawns
MonitorDuration(k) ==
    CASE k = 1 -> Scenario1Duration
      [] k = 2 -> Scenario2Duration
      [] k = 3 -> Scenario3Duration
      [] OTHER -> Scenario4MonitorDuration

\* The command line of the monitor a scenario spawns: "monitor", --url and
\* --duration, and nothing else
MonitorCommandLine(k) ==
    [command |-> "monitor", duration |-> MonitorDuration(k), context |-> ""]

\* --duration given to load_generator.py by scenarios 1..3
LoadDuration(k) ==
    CASE k = 1 -> Scenario1Duration
      [] k = 2 -> Scenario2Duration
      [] OTHER -> Scenario3Duration

\* The scenario a command begins with (0: none)
FirstScenario(c) ==
    CASE c = "scenario1" -> 1
      [] c = "scenario2" -> 2
      [] c = "scenario3" -> 3
      [] c = "scenario4" -> 4
      [] c = "all" -> 1
      [] OTHER -> 0

\* main() after parse_args
Dispatch ==
    /\ mainPc = "dispatch"
    /\ cur' = FirstScenario(cmd)
    /\ mainPc' = (CASE cmd = "monitor" -> "monitor"
                    [] cmd = "report" -> "report"
                    [] OTHER -> "scenario")
    /\ monPc' = (IF cmd = "monitor" THEN [monPc EXCEPT ![0] = "init"] ELSE monPc)
    /\ monDur' = (IF cmd = "monitor" THEN [monDur EXCEPT ![0] = argDuration] ELSE monDur)
    /\ monKubectl' = (IF cmd = "monitor"
                      THEN [monKubectl EXCEPT ![0] = kubectl_cmd(argContext)]
                      ELSE monKubectl)
    /\ UNCHANGED <<cmd, argDuration, urlGiven, argContext, scnPc, loadTimer, loadCode, burstPc,
                   launched, settled, failed, staggerTimer, coolTimer, sinceReturn,
                   stopSent, abortCause>>
    /\ UNCHANGED <<monCall, monPods, monSample, monElapsed, monTimer, monSig>>
    /\ UNCHANGED <<qVars, repVars, appVars, gcVars>>

\* The scenario ends with an exception, which main() does not catch
ScenarioRaises(k, exc) ==
    /\ scnPc' = [scnPc EXCEPT ![k] = "raised"]
    /\ mainPc' = "aborted"
    /\ abortCause' = exc
    /\ loadTimer' = 0
    /\ burstPc' = "none"
    /\ launched' = 0
    /\ settled' = 0
    /\ failed' = 0
    /\ staggerTimer' = 0
    /\ UNCHANGED <<cmd, argDuration, urlGiven, argContext, cur, coolTimer, sinceReturn>>

\* `import aiohttp' of scenario 4 fails, before anything is started
ImportFails ==
    /\ mainPc = "scenario" /\ cur = 4 /\ scnPc[4] = "idle"
    /\ ScenarioRaises(4, "ImportError")
    /\ UNCHANGED <<loadCode, stopSent>>
    /\ UNCHANGED monVars
    /\ UNCHANGED <<qVars, repVars, appVars, gcVars>>

\* Popen reaps the ended children of earlier Popen objects (subprocess._cleanup)
Reaped(pcs) ==
    [m \in Monitors |-> IF pcs[m] \in {"exited", "crashed", "killed"}
                        THEN "reaped" ELSE pcs[m]]

\* subprocess.Popen([... "monitor", "--url", app_url, "--duration", D])
StartMonitor(k) ==
    /\ mainPc = "scenario" /\ cur = k /\ scnPc[k] = "idle"
    /\ monPc' = [Reaped(monPc) EXCEPT ![k] = "init"]
    /\ monDur' = [monDur EXCEPT ![k] = MonitorCommandLine(k).duration]
    /\ monKubectl' = [monKubectl EXCEPT ![k] = kubectl_cmd(MonitorCommandLine(k).context)]
    /\ scnPc' = [scnPc EXCEPT ![k] = "monitoring"]
    /\ UNCHANGED <<cmd, argDuration, urlGiven, argContext, mainPc, cur, loadTimer, loadCode, burstPc,
                   launched, settled, failed, staggerTimer, coolTimer, sinceReturn,
                   stopSent, abortCause>>
    /\ UNCHANGED <<monCall, monPods, monSample, monElapsed, monTimer, monSig>>
    /\ UNCHANGED <<qVars, repVars, appVars, gcVars>>

\* subprocess.run(["python", "load_generator.py", ...]) starts the load generator
LoadLaunch(k) ==
    /\ k \in 1..3
    /\ mainPc = "scenario" /\ cur = k /\ scnPc[k] = "monitoring"
    /\ scnPc' = [scnPc EXCEPT ![k] = "load"]
    /\ loadTimer' = Ticks(LoadDuration(k))
    /\ loadCode' = 0
    /\ UNCHANGED <<cmd, argDuration, urlGiven, argContext, mainPc, cur, burstPc, launched,
                   settled, failed, staggerTimer, coolTimer, sinceReturn,
                   stopSent, abortCause>>
    /\ UNCHANGED monVars
    /\ UNCHANGED <<qVars, repVars, appVars, gcVars>>

\* subprocess.run cannot start "python": FileNotFoundError
LoadLaunchFails(k) ==
    /\ k \in 1..3
    /\ mainPc = "scenario" /\ cur = k /\ scnPc[k] = "monitoring"
    /\ ScenarioRaises(k, "FileNotFoundError")
    /\ UNCHANGED <<loadCode, stopSent>>
    /\ UNCHANGED monVars
    /\ UNCHANGED <<qVars, repVars, appVars, gcVars>>

\* The exit codes of the load generator: 0 once it has run its --duration, a
\* non-zero code at any time
LoadMayExit(code) == code # 0 \/ loadTimer = 0

\* subprocess.run as it would be with check=True: a non-zero code raises
AfterLoadExitChecked(code) == IF code = 0 THEN "returns" ELSE "raises"

\* What subprocess.run does with the exit code: given no check=True, it
\* returns for every code
AfterLoadExit(code) == "returns"

\* The load generator exits and subprocess.run returns
LoadExit(k, code) ==
    /\ k \in 1..3
    /\ mainPc = "scenario" /\ cur = k /\ scnPc[k] = "load"
    /\ LoadMayExit(code)
    /\ IF AfterLoadExit(code) = "returns"
       THEN /\ scnPc' = [scnPc EXCEPT ![k] = "stop"]
            /\ loadTimer' = 0
            /\ loadCode' = code
            /\ UNCHANGED <<cmd, argDuration, urlGiven, argContext, mainPc, cur, burstPc, launched,
                           settled, failed, staggerTimer, coolTimer, sinceReturn,
                           stopSent, abortCause>>
       ELSE /\ ScenarioRaises(k, "CalledProcessError")
            /\ loadCode' = code
            /\ UNCHANGED stopSent
    /\ UNCHANGED monVars
    /\ UNCHANGED <<qVars, repVars, appVars, gcVars>>

\* A terminate() that signals without looking whether the child has ended
TerminateRaisesOnEnded(k) == IF Alive(k) THEN "signals" ELSE "raises"

\* Popen.terminate(): SIGTERM to a child that runs, nothing to one that has
\* ended; it does not wait for the child, and it raises nothing
Terminate(k) == IF Alive(k) THEN "signals" ELSE "nothing"

\* main() after scenario k has returned
AfterScenario(k) ==
    IF cmd = "all" THEN (IF k < 4 THEN "cooldown" ELSE "report") ELSE "done"

\* monitor_process.terminate(), the last print, and the return to main(),
\* which goes on to asyncio.sleep(30), the report or its end
StopMonitor(k) ==
    /\ mainPc = "scenario" /\ cur = k /\ scnPc[k] = "stop"
    /\ stopSent' = [stopSent EXCEPT ![k] = TRUE]
    /\ IF Terminate(k) = "raises"
       THEN /\ ScenarioRaises(k, "ProcessLookupError")
            /\ UNCHANGED <<loadCode, monSig>>
       ELSE /\ monSig' = [monSig EXCEPT ![k] = (Terminate(k) = "signals")]
            /\ scnPc' = [scnPc EXCEPT ![k] = "returned"]
            /\ mainPc' = AfterScenario(k)
            /\ coolTimer' = (IF AfterScenario(k) = "cooldown" THEN Ticks(Cooldown) ELSE 0)
            /\ sinceReturn' = 0
            /\ UNCHANGED <<cmd, argDuration, urlGiven, argContext, cur, loadTimer, loadCode, burstPc,
                           launched, settled, failed, staggerTimer, abortCause>>
    /\ UNCHANGED <<monPc, monCall, monPods, monSample, monElapsed, monTimer, monDur, monKubectl>>
    /\ UNCHANGED <<qVars, repVars, appVars, gcVars>>

\* A cooldown that is not awaited: it is over at once
CooldownOverEarly == TRUE

\* await asyncio.sleep(30) returns once the 30 s are over
CooldownOver == coolTimer = 0

\* asyncio.sleep(30) is over; the next scenario is called
CooldownEnds ==
    /\ mainPc = "cooldown" /\ CooldownOver
    /\ mainPc' = "scenario"
    /\ cur' = cur + 1
    /\ UNCHANGED <<cmd, argDuration, urlGiven, argContext, scnPc, loadTimer, loadCode, burstPc,
                   launched, settled, failed, staggerTimer, coolTimer, sinceReturn,
                   stopSent, abortCause>>
    /\ UNCHANGED monVars
    /\ UNCHANGED <<qVars, repVars, appVars, gcVars>>

\* generate_demo_report()
Report ==
    /\ mainPc = "report"
    /\ mainPc' = "done"
    /\ UNCHANGED <<cmd, argDuration, urlGiven, argContext, cur, scnPc, loadTimer, loadCode, burstPc,
                   launched, settled, failed, staggerTimer, coolTimer, sinceReturn,
                   stopSent, abortCause>>
    /\ UNCHANGED monVars
    /\ UNCHANGED <<qVars, repVars, appVars, gcVars>>

(***************************************************************************)
(* cpu_intensive_load() of scenario 4.                                     *)
(***************************************************************************)
\* async with aiohttp.ClientSession(): tasks = []
BurstOpen ==
    /\ mainPc = "scenario" /\ cur = 4 /\ scnPc[4] = "monitoring"
    /\ scnPc' = [scnPc EXCEPT ![4] = "load"]
    /\ burstPc' = "launch"
    /\ launched' = 0
    /\ settled' = 0
    /\ failed' = 0
    /\ loadCode' = 0
    /\ UNCHANGED <<cmd, argDuration, urlGiven, argContext, mainPc, cur, loadTimer,
                   staggerTimer, coolTimer, sinceReturn,
                   stopSent, abortCause>>
    /\ UNCHANGED monVars
    /\ UNCHANGED <<qVars, repVars, appVars, gcVars>>

\* An asyncio.sleep(0.1) that is not awaited: it is over at once
StaggerOverEarly == TRUE

\* await asyncio.sleep(0.1) returns once the 0.1 s are over
StaggerOver == staggerTimer = 0

\* for _ in range(50): create_task(session.post(...)); await asyncio.sleep(0.1)
BurstLaunch ==
    /\ scnPc[4] = "load"
    /\ \/ burstPc = "launch"
       \/ burstPc = "stagger" /\ StaggerOver
    /\ launched < BurstCount
    /\ launched' = launched + 1
    /\ burstPc' = "stagger"
    /\ staggerTimer' = StaggerTicks
    /\ UNCHANGED <<cmd, argDuration, urlGiven, argContext, mainPc, cur, scnPc, loadTimer, loadCode,
                   settled, failed, coolTimer, sinceReturn,
                   stopSent, abortCause>>
    /\ UNCHANGED monVars
    /\ UNCHANGED <<qVars, repVars, appVars, gcVars>>

\* The loop is over: await asyncio.gather(*tasks, return_exceptions=True)
BurstGather ==
    /\ scnPc[4] = "load"
    /\ burstPc = "stagger" /\ StaggerOver
    /\ launched = BurstCount
    /\ burstPc' = "gather"
    /\ UNCHANGED <<cmd, argDuration, urlGiven, argContext, mainPc, cur, scnPc, loadTimer, loadCode,
                   launched, settled, failed, staggerTimer, coolTimer, sinceReturn,
                   stopSent, abortCause>>
    /\ UNCHANGED monVars
    /\ UNCHANGED <<qVars, repVars, appVars, gcVars>>

\* A task is done, with a response (err = 0) or an exception (err = 1); the
\* tasks run while cpu_intensive_load() awaits
RequestSettles(err) ==
    /\ scnPc[4] = "load"
    /\ burstPc \in {"stagger", "gather"}
    /\ settled < launched
    /\ settled' = settled + 1
    /\ failed' = failed + err
    /\ UNCHANGED <<cmd, argDuration, urlGiven, argContext, mainPc, cur, scnPc, loadTimer, loadCode,
                   burstPc, launched, staggerTimer, coolTimer, sinceReturn,
                   stopSent, abortCause>>
    /\ UNCHANGED monVars
    /\ UNCHANGED <<qVars, repVars, appVars, gcVars>>

\* gather without return_exceptions=True: the first exception of a task is
\* raised to the caller
GatherOutcomePropagating ==
    IF failed > 0 THEN "raises"
    ELSE IF settled = launched THEN "returns" ELSE "waits"

\* asyncio.gather(*tasks, return_exceptions=True) is done: "returns" with the
\* results once every task is done, "raises" never
GatherOutcome ==
    IF settled = launched THEN "returns" ELSE "waits"

\* gather is over and the session is closed
GatherEnds ==
    /\ scnPc[4] = "load"
    /\ burstPc = "gather"
    /\ GatherOutcome # "waits"
    /\ IF GatherOutcome = "returns"
       THEN /\ scnPc' = [scnPc EXCEPT ![4] = "stop"]
            /\ burstPc' = "none"
            /\ UNCHANGED <<cmd, argDuration, urlGiven, argContext, mainPc, cur, loadTimer, loadCode,
                           launched, settled, failed, staggerTimer, coolTimer,
                           sinceReturn,
                   stopSent, abortCause>>
       ELSE ScenarioRaises(4, "ClientError") /\ UNCHANGED <<loadCode, stopSent>>
    /\ UNCHANGED monVars
    /\ UNCHANGED <<qVars, repVars, appVars, gcVars>>

\* main() is cancelled (KeyboardInterrupt) where it waits: in subprocess.run
\* of the load generator, in an await of cpu_intensive_load(), in the cooldown
Interrupt ==
    /\ \/ mainPc = "scenario" /\ scnPc[cur] = "load" /\ burstPc # "launch"
       \/ mainPc = "cooldown"
    /\ IF mainPc = "scenario"
       THEN ScenarioRaises(cur, "Cancelled") /\ UNCHANGED <<loadCode, stopSent>>
       ELSE /\ mainPc' = "aborted"
            /\ abortCause' = "Cancelled"
            /\ coolTimer' = 0
            /\ UNCHANGED <<cmd, argDuration, urlGiven, argContext, cur, scnPc, loadTimer, loadCode,
                           burstPc, launched, settled, failed, staggerTimer,
                           sinceReturn, stopSent>>
    /\ UNCHANGED monVars
    /\ UNCHANGED <<qVars, repVars, appVars, gcVars>>

\* main() has a step to take that does not wait
MainUrgent ==
    \/ mainPc \in {"parse", "dispatch", "report"}
    \/ mainPc = "cooldown" /\ CooldownOver
    \/ /\ mainPc = "scenario"
       /\ \/ scnPc[cur] \in {"idle", "monitoring", "stop"}
          \/ scnPc[cur] = "load" /\ burstPc = "launch"
          \/ scnPc[cur] = "load" /\ burstPc = "stagger" /\ StaggerOver
          \/ scnPc[cur] = "load" /\ burstPc = "gather" /\ GatherOutcome # "waits"

(***************************************************************************)
(* Time.                                                                   *)
(***************************************************************************)
\* The timers that run
RunningTimers ==
    {monTimer[m] : m \in {n \in Monitors : monPc[n] = "sleep"}}
      \cup (IF mainPc = "scenario" /\ cur \in 1..3 /\ scnPc[cur] = "load"
            THEN {loadTimer} ELSE {})
      \cup (IF burstPc = "stagger" THEN {staggerTimer} ELSE {})
      \cup (IF mainPc = "cooldown" THEN {coolTimer} ELSE {})

Less(t, d) == IF t > d THEN t - d ELSE 0

\* Time moves to the next expiry, when no process has a step that does not wait
Tick ==
    /\ ~MainUrgent
    /\ \A m \in Monitors : ~MonitorUrgent(m)
    /\ \E t \in RunningTimers : t > 0
    /\ LET d == Min({t \in RunningTimers : t > 0})
       IN  /\ monTimer' = [m \in Monitors |-> Less(monTimer[m], d)]
           /\ monElapsed' = [m \in Monitors |->
                                IF Alive(m)
                                THEN Min({monElapsed[m] + d, Max2(Ticks(monDur[m]), 0)})
                                ELSE monElapsed[m]]
           /\ loadTimer' = Less(loadTimer, d)
           /\ staggerTimer' = Less(staggerTimer, d)
           /\ coolTimer' = Less(coolTimer, d)
           /\ sinceReturn' = (IF mainPc = "cooldown"
                              THEN Min({sinceReturn + d, Ticks(Cooldown)})
                              ELSE sinceReturn)
    /\ UNCHANGED <<cmd, argDuration, urlGiven, argContext, mainPc, cur, scnPc, loadCode, burstPc,
                   launched, settled, failed, stopSent, abortCause>>
    /\ UNCHANGED <<monPc, monCall, monPods, monSample, monSig, monDur, monKubectl>>
    /\ UNCHANGED <<qVars, repVars, appVars, gcVars>>

(***************************************************************************)
(* generate_demo_report on the results files of scenarios 1..3.  A file is *)
(* [exists, stats, results]: whether it can be opened, whether             *)
(* data['stats'] is truthy, and data['results'], each result               *)
(* [status_code, response_time]; a status_code is [set, code], with set    *)
(* FALSE for null.                                                         *)
(***************************************************************************)
ReportScenarios == 1..3

SuccessLimit == 400

MsPerSecond == 1000

NoneCode == [set |-> FALSE, code |-> 0]

StatusCodes == {[set |-> TRUE, code |-> 200], [set |-> TRUE, code |-> 404], NoneCode}

\* The results lists tried: the i-th result took i seconds
ResultLists ==
    UNION {{[i \in 1..n |-> [status_code |-> codes[i], response_time |-> i]] :
              codes \in [1..n -> StatusCodes]} : n \in 0..MaxResults}

MissingFile == [exists |-> FALSE, stats |-> FALSE, results |-> <<>>]

ResultFiles ==
    {MissingFile} \cup
    {[exists |-> TRUE, stats |-> st, results |-> rs] :
        st \in BOOLEAN, rs \in ResultLists}

\* r['status_code'] < 400 compares None with an int: TypeError
ComparisonRaises(r) == ~r.status_code.set

\* [r['response_time'] * 1000 for r in data['results'] if r['status_code'] < 400]
RECURSIVE response_times(_)
response_times(results) ==
    IF results = <<>> THEN <<>>
    ELSE (IF Head(results).status_code.code < SuccessLimit
          THEN <<Head(results).response_time * MsPerSecond>>
          ELSE <<>>) \o response_times(Tail(results))

\* One turn of the loop over the scenarios: the file is not found and the turn
\* is left by `continue', or nothing is drawn, or the histogram is drawn, or
\* the comparison raises
PlotOf(file) ==
    IF ~file.exists THEN [status |-> "not found", data |-> <<>>]
    ELSE IF ~file.stats THEN [status |-> "empty", data |-> <<>>]
    ELSE IF \E i \in 1..Len(file.results) : ComparisonRaises(file.results[i])
    THEN [status |-> "raised", data |-> <<>>]
    ELSE [status |-> "drawn", data |-> response_times(file.results)]

\* generate_demo_report: the three turns, then the summary and savefig
generate_demo_report(files) ==
    IF \E i \in ReportScenarios : PlotOf(files[i]).status = "raised"
    THEN Raises("TypeError")
    ELSE Returned([plots |-> [i \in ReportScenarios |-> PlotOf(files[i])],
                   saved |-> TRUE])

\* demo.generate_demo_report() on the files rFiles
ReportRun ==
    /\ rPc = "ready"
    /\ rRes' = generate_demo_report(rFiles)
    /\ rPc' = "done"
    /\ UNCHANGED rFiles
    /\ UNCHANGED <<mainVars, monVars, qVars, appVars, gcVars>>

ReportIdle ==
    /\ rPc = "unused"
    /\ rFiles = <<>>
    /\ rRes = [status |-> "none", exc |-> "", value |-> <<>>]

(***************************************************************************)
(* The web service of src/app/main.py: the handlers of /health and         *)
(* /api/tasks, each request in a slot.  A handler takes its steps where    *)
(* it calls the database: get_connection, its statements, and for          *)
(* update_task the UPDATE after the SELECT.  conn is the handler's local   *)
(* variable: "unbound" (never assigned), "None", "open" or "closed".       *)
(***************************************************************************)
MaxRetries == 3

Requests == 1..MaxRequests

TaskIds == 1..MaxTasks

Endpoints == {"health_check", "get_tasks", "create_task", "get_task",
              "update_task", "delete_task"}

\* The JSON bodies tried: none, {}, {"other": ..}, {"description": ..},
\* {"title": ..}
Bodies == {"none", "empty", "other", "description", "title"}

\* not data
BodyFalsy(b) == b \in {"none", "empty"}

\* 'title' in data
HasTitle(b) == b = "title"

\* a field of ['title', 'description', 'status'] is in data
HasUpdatableField(b) == b \in {"title", "description"}

BodiesOf(e) == IF e \in {"create_task", "update_task"} THEN Bodies ELSE {"none"}

IdsOf(e) == IF e \in {"get_task", "update_task", "delete_task"} THEN TaskIds ELSE {0}

NoReq == [endpoint |-> "none", body |-> "none", id |-> 0]

\* What psycopg2.connect does at each attempt
AttemptOutcomes == [1..MaxRetries -> {"ok", "error"}]

BackoffLinear(attempt) == 2 * attempt

\* time.sleep(2 ** attempt): the seconds slept after the failed attempt
Backoff(attempt) == 2 ^ attempt

\* if attempt == max_retries - 1: raise
LastAttempt(attempt) == attempt = MaxRetries - 1

\* get_connection from attempt `attempt' on, after the sleeps `slept'
RECURSIVE ConnectFrom(_, _, _)
ConnectFrom(outcomes, attempt, slept) ==
    IF outcomes[attempt + 1] = "ok"
    THEN [status |-> "returned", attempts |-> attempt + 1, slept |-> slept, inc |-> 1]
    ELSE IF LastAttempt(attempt)
    THEN [status |-> "raised", attempts |-> attempt + 1, slept |-> slept, inc |-> 0]
    ELSE ConnectFrom(outcomes, attempt + 1, Append(slept, Backoff(attempt)))

get_connection(outcomes) == ConnectFrom(outcomes, 0, <<>>)

\* The handlers that set conn = None before their try
BindsConnFirst(e) == e \in {"get_tasks", "get_task", "update_task", "delete_task"}

\* finally: db_manager.close_connection(conn) after the handler chose the
\* status `code': with conn never assigned, reading it raises
\* UnboundLocalError and the response is Flask's 500
AfterFinally(c, code) == IF c = "unbound" THEN 500 ELSE code

\* The connections that are open and held by no handler at work
Leaks == gauge - Cardinality({r \in Requests : conn[r] = "open" /\ reqPc[r] \in {"query", "write"}})

\* The handler responds with `code'
Responds(r, code) ==
    /\ reqPc' = [reqPc EXCEPT ![r] = "responded"]
    /\ resp' = [resp EXCEPT ![r] = code]

\* close_connection(conn) on a connection: conn.close(); ACTIVE_CONNECTIONS.dec()
Closes(r) ==
    /\ conn' = [conn EXCEPT ![r] = "closed"]
    /\ gauge' = gauge - 1

\* A request arrives and its handler runs up to get_connection, or to its
\* response when it does not get there
Begin(r, e, b, id) ==
    /\ reqPc[r] = "idle"
    /\ e = "create_task" /\ HasTitle(b) =>
          nextId + Cardinality({q \in Requests : req[q].endpoint = "create_task"}) <= MaxTasks
    /\ req' = [req EXCEPT ![r] = [endpoint |-> e, body |-> b, id |-> id]]
    /\ conn' = [conn EXCEPT ![r] = IF BindsConnFirst(e) THEN "None" ELSE "unbound"]
    /\ IF e = "create_task" /\ (BodyFalsy(b) \/ ~HasTitle(b))
       THEN Responds(r, AfterFinally(conn'[r], 400))
       ELSE IF e = "update_task" /\ BodyFalsy(b)
       THEN Responds(r, AfterFinally(conn'[r], 400))
       ELSE /\ reqPc' = [reqPc EXCEPT ![r] = "connect"]
            /\ UNCHANGED resp
    /\ UNCHANGED <<dbFailed, gauge, tasks, nextId>>
    /\ UNCHANGED <<mainVars, monVars, qVars, repVars, gcVars>>

\* conn = db_manager.get_connection()
Connect(r, outcomes) ==
    /\ reqPc[r] = "connect"
    /\ LET c == get_connection(outcomes)
       IN  IF c.status = "returned"
           THEN /\ conn' = [conn EXCEPT ![r] = "open"]
                /\ gauge' = gauge + c.inc
                /\ reqPc' = [reqPc EXCEPT ![r] = "query"]
                /\ UNCHANGED <<resp, dbFailed>>
           ELSE /\ dbFailed' = [dbFailed EXCEPT ![r] = TRUE]
                /\ Responds(r, IF req[r].endpoint = "health_check" THEN 503 ELSE 500)
                /\ UNCHANGED <<conn, gauge>>
    /\ UNCHANGED <<req, tasks, nextId>>
    /\ UNCHANGED <<mainVars, monVars, qVars, repVars, gcVars>>

StatusOfFieldsFirst(e, b, id) ==
    CASE e = "health_check" -> 200
      [] e = "get_tasks" -> 200
      [] e = "create_task" -> 201
      [] e = "get_task" -> (IF id \in tasks THEN 200 ELSE 404)
      [] e = "update_task" -> (IF ~HasUpdatableField(b) THEN 400
                               ELSE IF id \notin tasks THEN 404 ELSE 200)
      [] OTHER -> (IF id \in tasks THEN 204 ELSE 404)

\* The status a handler chooses when its statements succeed
StatusOf(e, b, id) ==
    CASE e = "health_check" -> 200
      [] e = "get_tasks" -> 200
      [] e = "create_task" -> 201
      [] e = "get_task" -> (IF id \in tasks THEN 200 ELSE 404)
      [] e = "update_task" -> (IF id \notin tasks THEN 404
                               ELSE IF ~HasUpdatableField(b) THEN 400 ELSE 200)
      [] OTHER -> (IF id \in tasks THEN 204 ELSE 404)

\* The handler's statements up to its response, or for update_task up to its
\* UPDATE; ok: the database executes them, ~ok: one of them raises
Query(r, ok) ==
    /\ reqPc[r] = "query"
    /\ LET e == req[r].endpoint
           b == req[r].body
           id == req[r].id
       IN  IF e = "health_check" /\ ~ok
           THEN \* except Exception: the connection is not closed
                /\ Leaks < MaxLeaks
                /\ Responds(r, 503)
                /\ dbFailed' = [dbFailed EXCEPT ![r] = TRUE]
                /\ UNCHANGED <<conn, gauge, tasks, nextId>>
           ELSE IF ok /\ e = "update_task" /\ StatusOf(e, b, id) = 200
           THEN /\ reqPc' = [reqPc EXCEPT ![r] = "write"]
                /\ UNCHANGED <<resp, dbFailed, conn, gauge, tasks, nextId>>
           ELSE /\ Responds(r, IF ok THEN StatusOf(e, b, id) ELSE 500)
                /\ dbFailed' = [dbFailed EXCEPT ![r] = ~ok]
                /\ Closes(r)
                /\ tasks' = (IF ok /\ e = "create_task" THEN tasks \cup {nextId}
                             ELSE IF ok /\ e = "delete_task" THEN tasks \ {id}
                             ELSE tasks)
                /\ nextId' = (IF ok /\ e = "create_task" THEN nextId + 1 ELSE nextId)
    /\ UNCHANGED req
    /\ UNCHANGED <<mainVars, monVars, qVars, repVars, gcVars>>

\* update_task: UPDATE ... RETURNING *, fetchone, commit, dict(task); the row
\* may be gone since the SELECT, and dict(None) raises
Write(r, ok) ==
    /\ reqPc[r] = "write"
    /\ Responds(r, IF ok /\ req[r].id \in tasks THEN 200 ELSE 500)
    /\ dbFailed' = [dbFailed EXCEPT ![r] = ~ok]
    /\ Closes(r)
    /\ UNCHANGED <<req, tasks, nextId>>
    /\ UNCHANGED <<mainVars, monVars, qVars, repVars, gcVars>>

\* The response is sent and the request is over
Recycle(r) ==
    /\ reqPc[r] = "responded"
    /\ reqPc' = [reqPc EXCEPT ![r] = "idle"]
    /\ req' = [req EXCEPT ![r] = NoReq]
    /\ conn' = [conn EXCEPT ![r] = "unbound"]
    /\ resp' = [resp EXCEPT ![r] = 0]
    /\ dbFailed' = [dbFailed EXCEPT ![r] = FALSE]
    /\ UNCHANGED <<gauge, tasks, nextId>>
    /\ UNCHANGED <<mainVars, monVars, qVars, repVars, gcVars>>

(***************************************************************************)
(* get_connection statement by statement, for the callers that are in it   *)
(* at once (Flask serves each request in its own thread).  Time is counted *)
(* in seconds here: the sleeps are whole seconds.  psycopg2.connect takes  *)
(* any time; a caller that sleeps wakes when its seconds have passed.      *)
(***************************************************************************)
\* A handler calls db_manager.get_connection(): for attempt in range(max_retries)
GetConnection(k) ==
    /\ gcPc[k] = "idle"
    /\ gcPc' = [gcPc EXCEPT ![k] = "try"]
    /\ gcAttempt' = [gcAttempt EXCEPT ![k] = 0]
    /\ UNCHANGED <<gcTimer, gcTried, gcWaited>>
    /\ UNCHANGED <<mainVars, monVars, qVars, repVars, appVars>>

\* psycopg2.connect(**DB_CONFIG) returns (outcome "ok") or raises
\* psycopg2.Error: the try statement of one iteration
Attempt(k, outcome) ==
    /\ gcPc[k] = "try"
    /\ gcTried' = [gcTried EXCEPT ![k] = Append(@, outcome)]
    /\ IF outcome = "ok"
       THEN /\ gauge' = gauge + 1
            /\ gcPc' = [gcPc EXCEPT ![k] = "returned"]
            /\ UNCHANGED gcTimer
       ELSE IF LastAttempt(gcAttempt[k])
       THEN /\ gcPc' = [gcPc EXCEPT ![k] = "raised"]
            /\ UNCHANGED <<gauge, gcTimer>>
       ELSE /\ gcPc' = [gcPc EXCEPT ![k] = "sleep"]
            /\ gcTimer' = [gcTimer EXCEPT ![k] = Backoff(gcAttempt[k])]
            /\ UNCHANGED gauge
    /\ UNCHANGED <<gcAttempt, gcWaited>>
    /\ UNCHANGED <<reqPc, req, conn, resp, dbFailed, tasks, nextId>>
    /\ UNCHANGED <<mainVars, monVars, qVars, repVars>>

\* time.sleep returns and the loop takes its next attempt
SleepOver(k) ==
    /\ gcPc[k] = "sleep"
    /\ gcTimer[k] = 0
    /\ gcPc' = [gcPc EXCEPT ![k] = "try"]
    /\ gcAttempt' = [gcAttempt EXCEPT ![k] = @ + 1]
    /\ UNCHANGED <<gcTimer, gcTried, gcWaited>>
    /\ UNCHANGED <<mainVars, monVars, qVars, repVars, appVars>>

\* A second passes for every caller in time.sleep; none stays asleep past
\* its time
SecondPasses ==
    /\ \E k \in Requests : gcPc[k] = "sleep"
    /\ \A k \in Requests : gcPc[k] = "sleep" => gcTimer[k] > 0
    /\ gcTimer' = [k \in Requests |-> IF gcPc[k] = "sleep" THEN gcTimer[k] - 1 ELSE gcTimer[k]]
    /\ gcWaited' = [k \in Requests |-> IF gcPc[k] = "sleep" THEN gcWaited[k] + 1 ELSE gcWaited[k]]
    /\ UNCHANGED <<gcPc, gcAttempt, gcTried>>
    /\ UNCHANGED <<mainVars, monVars, qVars, repVars, appVars>>

\* The caller is done with the call: with a connection it ends in
\* close_connection(conn), after the exception it holds none
Release(k) ==
    /\ gcPc[k] \in {"returned", "raised"}
    /\ gauge' = (IF gcPc[k] = "returned" THEN gauge - 1 ELSE gauge)
    /\ gcPc' = [gcPc EXCEPT ![k] = "idle"]
    /\ gcAttempt' = [gcAttempt EXCEPT ![k] = 0]
    /\ gcTried' = [gcTried EXCEPT ![k] = <<>>]
    /\ gcWaited' = [gcWaited EXCEPT ![k] = 0]
    /\ UNCHANGED gcTimer
    /\ UNCHANGED <<reqPc, req, conn, resp, dbFailed, tasks, nextId>>
    /\ UNCHANGED <<mainVars, monVars, qVars, repVars>>

\* No caller is in get_connection
NoCaller ==
    /\ gcPc = [k \in Requests |-> "idle"]
    /\ gcAttempt = [k \in Requests |-> 0]
    /\ gcTimer = [k \in Requests |-> 0]
    /\ gcTried = [k \in Requests |-> <<>>]
    /\ gcWaited = [k \in Requests |-> 0]

\* The service after DatabaseManager() has run init_db: no request, no
\* connection, an empty table
AppStart ==
    /\ reqPc = [r \in Requests |-> "idle"]
    /\ req = [r \in Requests |-> NoReq]
    /\ conn = [r \in Requests |-> "unbound"]
    /\ resp = [r \in Requests |-> 0]
    /\ dbFailed = [r \in Requests |-> FALSE]
    /\ gauge = 0
    /\ tasks = {}
    /\ nextId = 1

(***************************************************************************)
(* The harness.                                                            *)
(***************************************************************************)
ArgDurations == (-1..MaxArgSeconds) \cup {DefaultDuration}

\* The values of --kubectl-context tried: not given, or a context
Contexts == {"", "staging"}

\* The commands tried with a context: those without the burst of scenario 4,
\* which reads no context
ContextCommands == {"scenario1", "scenario2", "scenario3", "monitor", "report"}

NoQuery == [status |-> "none", exc |-> "", value |-> <<>>]

\* The harness before main() runs, for the command line of a given set
HarnessInit(commands) ==
    /\ cmd \in commands
    /\ argDuration \in (IF cmd = "monitor" THEN ArgDurations ELSE {DefaultDuration})
    /\ urlGiven \in BOOLEAN
    /\ argContext \in (IF cmd \in ContextCommands THEN Contexts ELSE {""})
    /\ mainPc = "parse"
    /\ cur = 0
    /\ scnPc = [k \in Scenarios |-> "idle"]
    /\ loadTimer = 0
    /\ loadCode = 0
    /\ burstPc = "none"
    /\ launched = 0
    /\ settled = 0
    /\ failed = 0
    /\ staggerTimer = 0
    /\ coolTimer = 0
    /\ sinceReturn = 0
    /\ stopSent = [k \in Scenarios |-> FALSE]
    /\ abortCause = ""
    /\ monPc = [m \in Monitors |-> "none"]
    /\ monCall = [m \in Monitors |-> "none"]
    /\ monPods = [m \in Monitors |-> 0]
    /\ monSample = [m \in Monitors |-> NoSample]
    /\ monElapsed = [m \in Monitors |-> 0]
    /\ monTimer = [m \in Monitors |-> 0]
    /\ monSig = [m \in Monitors |-> FALSE]
    /\ monDur = [m \in Monitors |-> 0]
    /\ monKubectl = [m \in Monitors |-> <<>>]

QueryIdle ==
    /\ qPc = "unused"
    /\ qRun = NoRun
    /\ qRes = NoQuery

Init ==
    /\ HarnessInit(Commands \cup InvalidCommands)
    /\ QueryIdle
    /\ ReportIdle
    /\ AppStart
    /\ NoCaller

Next ==
    \/ ParseArgs
    \/ Dispatch
    \/ ImportFails
    \/ \E k \in Scenarios : StartMonitor(k)
    \/ \E k \in Scenarios : LoadLaunch(k)
    \/ \E k \in Scenarios : LoadLaunchFails(k)
    \/ \E k \in Scenarios, code \in {0, 1} : LoadExit(k, code)
    \/ \E k \in Scenarios : StopMonitor(k)
    \/ CooldownEnds
    \/ Report
    \/ BurstOpen
    \/ BurstLaunch
    \/ BurstGather
    \/ \E err \in {0, 1} : RequestSettles(err)
    \/ GatherEnds
    \/ Interrupt
    \/ \E m \in Monitors : MonitorLoop(m)
    \/ \E m \in Monitors : MonitorPods(m)
    \/ \E m \in Monitors : MonitorHpa(m)
    \/ \E m \in Monitors : Deliver(m)
    \/ Tick

Spec == Init /\ [][Next]_vars


(***************************************************************************)
(* The `monitor' command alone: monitor_scaling() in the process of        *)
(* main().  No step that can be taken is put off for ever.                 *)
(***************************************************************************)
MonitorInit ==
    /\ HarnessInit({"monitor"})
    /\ urlGiven
    /\ QueryIdle
    /\ ReportIdle
    /\ AppStart
    /\ NoCaller

MonitorNext ==
    \/ ParseArgs
    \/ Dispatch
    \/ MonitorLoop(0)
    \/ MonitorPods(0)
    \/ MonitorHpa(0)
    \/ Tick

MonitorSpec == MonitorInit /\ [][MonitorNext]_vars /\ WF_vars(MonitorNext)

(***************************************************************************)
(* The status query on its own: get_pod_count and get_hpa_status applied   *)
(* to every kubectl run whose output is a text of at most MaxOut           *)
(* characters.                                                             *)
(***************************************************************************)
Alphabet == {"1", "2", ",", "x", LF}

Texts(n) == UNION {[1..len -> Alphabet] : len \in 0..n}

QueryRuns ==
    {[kind |-> "ok", out |-> o] : o \in Texts(MaxOut)}
      \cup {[kind |-> k, out |-> <<>>] : k \in RunKinds \ {"ok"}}

QueryInit ==
    /\ HarnessInit({"report"})
    /\ urlGiven /\ argContext = ""
    /\ qPc = "ready"
    /\ qRun \in QueryRuns
    /\ qRes = NoQuery
    /\ ReportIdle
    /\ AppStart
    /\ NoCaller

\* pod_count = self.get_pod_count(); a kubectl that never exits leaves the
\* call in progress
QueryPods ==
    /\ qPc = "ready"
    /\ get_pod_count(qRun).status # "blocked"
    /\ qRes' = get_pod_count(qRun)
    /\ qPc' = "pods"
    /\ UNCHANGED <<qRun>>
    /\ UNCHANGED <<mainVars, monVars, repVars, appVars, gcVars>>

\* hpa_status = self.get_hpa_status()
QueryHpa ==
    /\ qPc = "ready"
    /\ get_hpa_status(qRun).status # "blocked"
    /\ qRes' = get_hpa_status(qRun)
    /\ qPc' = "hpa"
    /\ UNCHANGED <<qRun>>
    /\ UNCHANGED <<mainVars, monVars, repVars, appVars, gcVars>>

\* One tick of monitor_scaling on a kubectl that does qRun: both queries, the
\* label and the status line
QueryTick ==
    /\ qPc = "ready"
    /\ LET p == get_pod_count(qRun)
           h == get_hpa_status(qRun)
       IN  /\ p.status # "blocked"
           /\ qRes' = (IF p.status = "raised" THEN p
                       ELSE IF h.status = "raised" THEN h
                       ELSE Returned([hpa |-> h.value,
                                      line |-> StatusLine(p.value, h.value)]))
    /\ qPc' = "tick"
    /\ UNCHANGED <<qRun>>
    /\ UNCHANGED <<mainVars, monVars, repVars, appVars, gcVars>>

QueryNext == QueryPods \/ QueryHpa \/ QueryTick

QuerySpec == QueryInit /\ [][QueryNext]_vars

(***************************************************************************)
(* The report on its own: generate_demo_report on every choice of results  *)
(* files of at most MaxResults results.                                    *)
(***************************************************************************)
ReportInit ==
    /\ HarnessInit({"report"})
    /\ urlGiven /\ argContext = ""
    /\ QueryIdle
    /\ rPc = "ready"
    /\ rFiles \in [ReportScenarios -> ResultFiles]
    /\ rRes = NoQuery
    /\ AppStart
    /\ NoCaller

ReportNext == ReportRun

ReportSpec == ReportInit /\ [][ReportNext]_vars

(***************************************************************************)
(* The web service on its own: up to MaxRequests requests at once.         *)
(***************************************************************************)
AppInit ==
    /\ HarnessInit({"report"})
    /\ urlGiven /\ argContext = ""
    /\ QueryIdle
    /\ ReportIdle
    /\ AppStart
    /\ NoCaller

AppNext ==
    \/ \E r \in Requests, e \in Endpoints :
          \E b \in BodiesOf(e), id \in IdsOf(e) : Begin(r, e, b, id)
    \/ \E r \in Requests, outcomes \in AttemptOutcomes : Connect(r, outcomes)
    \/ \E r \in Requests, ok \in BOOLEAN : Query(r, ok)
    \/ \E r \in Requests, ok \in BOOLEAN : Write(r, ok)
    \/ \E r \in Requests : Recycle(r)

AppSpec == AppInit /\ [][AppNext]_vars

(***************************************************************************)
(* The task store alone: the requests of /api/tasks that create, read,     *)
(* update and delete one task.                                             *)
(***************************************************************************)
TaskEndpoints == {"create_task", "get_task", "update_task", "delete_task"}

StoreInit == AppInit

StoreNext ==
    \/ \E r \in Requests, e \in TaskEndpoints :
          \E b \in BodiesOf(e), id \in IdsOf(e) : Begin(r, e, b, id)
    \/ \E r \in Requests, outcomes \in AttemptOutcomes : Connect(r, outcomes)
    \/ \E r \in Requests, ok \in BOOLEAN : Query(r, ok)
    \/ \E r \in Requests, ok \in BOOLEAN : Write(r, ok)
    \/ \E r \in Requests : Recycle(r)

StoreSpec == StoreInit /\ [][StoreNext]_vars

(***************************************************************************)
(* get_connection alone: its callers take its statements in any order.     *)
(***************************************************************************)
RetryInit == AppInit

RetryNext ==
    \/ \E k \in Requests : GetConnection(k)
    \/ \E k \in Requests, outcome \in {"ok", "error"} : Attempt(k, outcome)
    \/ \E k \in Requests : SleepOver(k)
    \/ SecondPasses
    \/ \E k \in Requests : Release(k)

RetrySpec == RetryInit /\ [][RetryNext]_vars


(***************************************************************************)
(* The claims.                                                             *)
(***************************************************************************)
Ended(m) == monPc[m] \in {"exited", "crashed", "killed", "reaped"}

\* C1: once monitor_process.terminate() of a scenario has returned, the
\* monitor of that scenario prints no further status line.
C1_NoSampleAfterStop ==
    [][\A k \in Scenarios : stopSent[k] => ~Emits(k)]_vars

\* C2: however the load phase of a scenario ends, the scenario has called
\* terminate() on the monitor it started by the time control leaves it, by
\* return or by exception.
C2_StopSentOnEveryExit ==
    \A k \in Scenarios :
        (scnPc[k] \in {"returned", "raised"} /\ monPc[k] # "none") => stopSent[k]

\* C3: in every scenario the monitor is started before the load phase, its
\* duration is at least the duration given to the load generator, and while
\* the load phase runs the monitor has not ended by itself.
C3_MonitorCoversLoad ==
    /\ \A k \in 1..3 : MonitorDuration(k) >= LoadDuration(k)
    /\ \A k \in Scenarios : scnPc[k] = "load" => monPc[k] \notin {"none", "exited"}

\* C4: under `all' the scenarios run in the order 1, 2, 3, 4, one at a time;
\* scenario k+1 starts only when scenario k has returned and the whole
\* cooldown of 30 s has passed since; there is no cooldown after scenario 4,
\* and the report comes after scenario 4 has returned.
C4_SequentialWithCooldown ==
    cmd = "all" =>
        /\ \A k \in Scenarios :
              scnPc[k] # "idle" => \A j \in 1..(k - 1) : scnPc[j] = "returned"
        /\ \A k \in 2..4 :
              scnPc[k] \notin {"idle", "returned"} => sinceReturn = Ticks(Cooldown)
        /\ mainPc = "cooldown" =>
              cur \in 1..3 /\ scnPc[cur] = "returned" /\ scnPc[cur + 1] = "idle"
        /\ mainPc \in {"report", "done"} =>
              /\ \A k \in Scenarios : scnPc[k] = "returned"
              /\ sinceReturn = 0

C4_Witness == cmd = "all" /\ mainPc = "done"

C6_QueryNeverRaises ==
    qPc \in {"pods", "hpa"} =>
        /\ qRes.status = "returned"
        /\ (qRun.kind # "ok" /\ qPc = "pods") => qRes.value = 0
        /\ (qRun.kind # "ok" /\ qPc = "hpa") => qRes.value = ZeroHpa

\* C7: terminate() on a monitor that has already ended raises nothing and
\* changes nothing: the scenario returns and the monitor stays ended; on a
\* monitor that runs it sends the signal; and it never waits.
C7_StopIsSafe ==
    /\ [][\A k \in Scenarios :
            (scnPc[k] = "stop" /\ scnPc'[k] # "stop") =>
                /\ scnPc'[k] = "returned"
                /\ Ended(k) => (monPc'[k] = monPc[k] /\ ~monSig'[k])
                /\ Alive(k) => monSig'[k]]_vars
    /\ [](\A k \in Scenarios : scnPc[k] = "stop" => ENABLED StopMonitor(k))

\* terminate() was called on a monitor that had ended by itself.
C7_Witness ==
    \E k \in Scenarios : scnPc[k] = "returned" /\ monPc[k] = "exited"

\* C8: the polling loop always ends; with a duration <= 0 it polls not once.
C8_MonitorLoopEnds ==
    /\ <>(monPc[0] \in {"exited", "crashed", "killed"})
    /\ [](argDuration <= 0 => monPc[0] \notin {"pods", "hpa", "sleep"})

\* C9: a control-plane query in progress is over after a bounded time, and the
\* monitor goes on to its sleep or ends.
C9_QueryInProgressEnds ==
    (monPc[0] \in {"pods", "hpa"}) ~> (monPc[0] \in {"sleep", "exited", "crashed"})

\* C10: cpu_intensive_load() returns only when all 50 tasks are created and
\* done; no exception of a request ends the scenario.
C10_BurstSettlesAll ==
    /\ scnPc[4] \in {"stop", "returned"} =>
          launched = BurstCount /\ settled = BurstCount
    /\ burstPc = "gather" => launched = BurstCount
    /\ scnPc[4] = "raised" => abortCause \in {"ImportError", "Cancelled"}

\* Scenario 4 has completed though some requests, not all, failed.
C10_Witness ==
    scnPc[4] = "returned" /\ failed > 0 /\ failed < BurstCount

\* C11: the burst of scenario 4 launches exactly 50 requests, one at a time;
\* a request after the first is launched only when the 0.1 s sleep begun at
\* the launch before it is over, and each launch begins that sleep anew; never
\* are more than 50 requests in flight.
C11_StaggeredLaunchWithinCap ==
    /\ [](/\ launched \in 0..BurstCount
          /\ settled \in 0..launched
          /\ launched - settled <= BurstCount
          /\ burstPc = "gather" => launched = BurstCount
          /\ scnPc[4] \in {"stop", "returned"} => launched = BurstCount)
    /\ [][launched' > launched =>
            /\ launched' = launched + 1
            /\ launched > 0 => (burstPc = "stagger" /\ staggerTimer = 0)
            /\ staggerTimer' = StaggerTicks]_vars

\* All 50 requests are in flight at once.
C11_Witness == launched = BurstCount /\ settled = 0 /\ burstPc = "gather"

\* C12: with a command line that lacks --url or names no command of the
\* choices, the process ends with a non-zero status at parse_args: no monitor
\* is started, no scenario, load phase or kubectl run begins, no report is made.
C12_UsageErrorBeforeAnyWork ==
    (cmd \notin Commands \/ ~urlGiven) =>
        /\ mainPc \in {"parse", "usage"}
        /\ mainPc = "usage" => ExitStatus # 0
        /\ cur = 0
        /\ \A k \in Scenarios : scnPc[k] = "idle" /\ ~stopSent[k]
        /\ \A m \in Monitors : monPc[m] = "none" /\ monCall[m] = "none"
        /\ burstPc = "none" /\ launched = 0

\* A valid command without --url has ended in the usage error.
C12_Witness == mainPc = "usage" /\ cmd = "all" /\ ~urlGiven

\* The latencies of the results with a status code below 400, in order
IsSuccess(r) == r.status_code.set /\ r.status_code.code < 400

SuccessLatencies(results) ==
    LET ok == SelectSeq(results, IsSuccess)
    IN  [i \in 1..Len(ok) |-> ok[i].response_time * 1000]

\* C13: for every results file, also one with status codes >= 400 or absent,
\* generate_demo_report ends without an exception and saves the image; what it
\* draws for a scenario is the latencies of exactly the results with a status
\* code below 400; a missing file is passed over.
C13_ReportUsesSuccessesOnly ==
    rPc = "done" =>
        /\ rRes.status = "returned"
        /\ rRes.value.saved
        /\ \A i \in ReportScenarios :
              /\ ~rFiles[i].exists => rRes.value.plots[i].status = "not found"
              /\ (rFiles[i].exists /\ rFiles[i].stats) =>
                    /\ rRes.value.plots[i].status = "drawn"
                    /\ rRes.value.plots[i].data = SuccessLatencies(rFiles[i].results)

\* C14: a kubectl query that fails in a tick never ends the polling loop: the
\* monitor does not end by an exception, and the tick whose scaling-policy
\* query failed still prints its status line, with zeroes, and goes to sleep.
C14_QueryFailureKeepsPolling ==
    /\ [](monPc[0] # "crashed")
    /\ [][(monPc[0] = "hpa" /\ monCall[0] \in {"nonzero", "nolaunch"}
             /\ monPc'[0] # "hpa") =>
            /\ monPc'[0] = "sleep"
            /\ monSample'[0].cpu = 0 /\ monSample'[0].desired = 0
            /\ monSample'[0].status = "Stable"]_vars

\* C15: a stop takes effect only between ticks: a monitor that is inside a
\* kubectl query of a tick is not ended by the stop signal.
C15_StopOnlyAtPollBoundary ==
    [][\A k \in Scenarios : monPc[k] \in {"pods", "hpa"} => monPc'[k] # "killed"]_vars

\* C16: the label of a tick is "Scaling Up" exactly when desired > current,
\* "Scaling Down" exactly when desired < current, "Stable" exactly when they
\* are equal; the status line carries one label.
C16_LabelComparesDesiredWithCurrent ==
    (qPc = "tick" /\ qRes.status = "returned") =>
        LET c == qRes.value.hpa.current_replicas
            d == qRes.value.hpa.desired_replicas
            l == qRes.value.line.status
        IN  /\ l \in {"Scaling Up", "Scaling Down", "Stable"}
            /\ (l = "Scaling Up") <=> (d > c)
            /\ (l = "Scaling Down") <=> (d < c)
            /\ (l = "Stable") <=> (d = c)

\* A tick whose sample has fewer desired than current replicas.
C16_Witness ==
    /\ qPc = "tick" /\ qRes.status = "returned"
    /\ qRes.value.line.status = "Scaling Down"
    /\ qRes.value.hpa.current_replicas = 12

\* The i-th comma-separated field of a text, read character by character
RECURSIVE FieldOfText(_, _)
FieldOfText(t, i) ==
    IF t = <<>> THEN <<>>
    ELSE IF Head(t) = "," THEN (IF i = 1 THEN <<>> ELSE FieldOfText(Tail(t), i - 1))
    ELSE IF i = 1 THEN <<Head(t)>> \o FieldOfText(Tail(t), 1)
    ELSE FieldOfText(Tail(t), i)

\* A text without the line end kubectl may print after it
WithoutLineEnd(t) ==
    IF t # <<>> /\ t[Len(t)] = LF THEN SubSeq(t, 1, Len(t) - 1) ELSE t

\* A scaling-policy status line: up to three fields of digits, any of them
\* empty or missing
IsStatusLine(t) ==
    /\ \A j \in 1..Len(t) : t[j] \in Digits \cup {","}
    /\ Cardinality({j \in 1..Len(t) : t[j] = ","}) <= 2

FieldValue(f) == IF f = <<>> THEN 0 ELSE DigitsValue(f)

\* C17: on a status line `current,desired,cpu_percent' get_hpa_status returns,
\* key by key, the integer of each field that is not empty and 0 for each
\* field that is empty or missing; it does not raise.
C17_StatusLineParsedFieldByField ==
    (qPc = "hpa" /\ qRun.kind = "ok" /\ IsStatusLine(WithoutLineEnd(qRun.out))) =>
        LET t == WithoutLineEnd(qRun.out)
        IN  qRes = Returned([current_replicas |-> FieldValue(FieldOfText(t, 1)),
                             desired_replicas |-> FieldValue(FieldOfText(t, 2)),
                             cpu_utilization |-> FieldValue(FieldOfText(t, 3))])

\* A status line whose middle field is empty has been parsed.
C17_Witness ==
    /\ qPc = "hpa" /\ qRun.kind = "ok" /\ qRun.out = <<"1", ",", ",", "2", LF>>
    /\ qRes.status = "returned"

\* C18: every kubectl run of the monitor a scenario starts uses the context
\* the orchestrator was given.
C18_MonitorUsesGivenContext ==
    \A k \in Scenarios :
        monPc[k] \in {"pods", "hpa"} => monKubectl[k] = kubectl_cmd(argContext)

\* C19: POST /api/tasks without a body or without `title' responds 400,
\* creates no task and opens no database connection; with a title and a
\* database that works it responds 201.
C19_CreateValidatesTitle ==
    /\ [](\A r \in Requests :
            (reqPc[r] = "responded" /\ req[r].endpoint = "create_task") =>
                /\ ~HasTitle(req[r].body) =>
                      (resp[r] = 400 /\ conn[r] \notin {"open", "closed"})
                /\ (HasTitle(req[r].body) /\ ~dbFailed[r]) => resp[r] = 201)
    /\ [][\A r \in Requests :
            (reqPc[r] = "idle" /\ req'[r].endpoint = "create_task"
               /\ ~HasTitle(req'[r].body)) =>
                (reqPc'[r] = "responded" /\ tasks' = tasks /\ gauge' = gauge)]_vars

\* C20: the gauge of active connections is the number of requests that hold
\* a connection: it is never negative, and 0 when no request is in flight.
C20_GaugeCountsHeldConnections ==
    /\ gauge >= 0
    /\ gauge = Cardinality({r \in Requests :
                               conn[r] = "open" /\ reqPc[r] \in {"query", "write"}})
    /\ (\A r \in Requests : reqPc[r] = "idle") => gauge = 0

\* The seconds of the waits that follow the first n failed attempts: 1 s
\* after the first, 2 s after the second
WaitsAfter(n) == IF n = 0 THEN 0 ELSE IF n = 1 THEN 1 ELSE 3

\* The attempts of the call that failed
FailedAttempts(k) == {i \in 1..Len(gcTried[k]) : gcTried[k][i] = "error"}

\* C21: get_connection makes at most 3 connection attempts; it returns at the
\* first attempt that succeeds, adding exactly 1 to the gauge and trying no
\* more; it waits 1 s after the first failure and 2 s after the second, and
\* only between attempts; after the third failure in a row it raises with no
\* further wait and the gauge as it was.
C21_ThreeAttemptsWithBackoff ==
    /\ [](\A k \in Requests :
            /\ Len(gcTried[k]) <= 3
            /\ \A i \in 1..Len(gcTried[k]) :
                  gcTried[k][i] = "ok" => (i = Len(gcTried[k]) /\ gcPc[k] = "returned")
            /\ gcPc[k] = "returned" =>
                  /\ gcTried[k] # <<>> /\ gcTried[k][Len(gcTried[k])] = "ok"
                  /\ gcWaited[k] = WaitsAfter(Len(gcTried[k]) - 1)
            /\ gcPc[k] = "try" =>
                  (Len(gcTried[k]) < 3 /\ gcWaited[k] = WaitsAfter(Len(gcTried[k])))
            /\ gcPc[k] = "sleep" =>
                  /\ Len(gcTried[k]) \in {1, 2}
                  /\ gcWaited[k] + gcTimer[k] = WaitsAfter(Len(gcTried[k]))
                  /\ gcWaited[k] >= WaitsAfter(Len(gcTried[k]) - 1)
            /\ gcPc[k] = "raised" =>
                  /\ gcTried[k] = <<"error", "error", "error">>
                  /\ gcWaited[k] = WaitsAfter(2))
    /\ [][\A k \in Requests :
            /\ (gcPc[k] = "try" /\ gcPc'[k] = "returned") => gauge' = gauge + 1
            /\ (gcPc[k] = "try" /\ gcPc'[k] \in {"sleep", "raised"}) => gauge' = gauge
            /\ (gcPc[k] = "sleep" /\ gcPc'[k] # "sleep") =>
                  (gcPc'[k] = "try" /\ gcTimer[k] = 0 /\ gauge' = gauge)
            /\ (gcPc[k] # "sleep" /\ gcPc'[k] = "sleep") =>
                  (gcTimer'[k] > 0 /\ FailedAttempts(k) # FailedAttempts(k)')]_vars

\* A call has returned the connection of its third attempt, after 1 s and
\* 2 s of waiting, while another has raised after its third failure.
C21_Witness ==
    \E k, j \in Requests :
        /\ gcPc[k] = "returned" /\ gcTried[k] = <<"error", "error", "ok">>
        /\ gcWaited[k] = 3 /\ gauge = 1
        /\ gcPc[j] = "raised" /\ gcWaited[j] = 3

\* The step in which the handler of slot r chooses its response, the
\* database having executed every statement the handler reached
Decides(r) ==
    /\ reqPc[r] \in {"idle", "query"}
    /\ reqPc'[r] = "responded"
    /\ ~dbFailed'[r]

\* Task id was created and is deleted
Deleted(id) == id < nextId /\ id \notin tasks

\* C22 as stated: DELETE of an id that does not exist responds 404 and
\* leaves the tasks as they are; DELETE of an existing id responds 204 and
\* removes exactly that task; a deleted id stays absent, and GET, PUT and
\* DELETE of an id that does not exist respond 404, PUT whatever its body.
C22_AbsentIdIsNotFound ==
    /\ [][\A r \in Requests :
            Decides(r) =>
                LET e == req'[r].endpoint
                    id == req'[r].id
                IN  /\ e = "delete_task" =>
                          IF id \in tasks
                          THEN resp'[r] = 204 /\ tasks' = tasks \ {id}
                          ELSE resp'[r] = 404 /\ tasks' = tasks
                    /\ (e \in {"get_task", "update_task"} /\ id \notin tasks) =>
                          (resp'[r] = 404 /\ tasks' = tasks)]_vars
    /\ [][\A id \in TaskIds : Deleted(id) => Deleted(id)']_vars

\* C22, amended: as C22, but PUT on an id that does not exist responds 404
\* when its body is a JSON object that is not empty, with or without an
\* updatable field; with the empty object it responds 400, whether the id
\* exists or not, and changes nothing.
C22_AbsentIdIsNotFoundGivenBody ==
    /\ [][\A r \in Requests :
            Decides(r) =>
                LET e == req'[r].endpoint
                    b == req'[r].body
                    id == req'[r].id
                IN  /\ e = "delete_task" =>
                          IF id \in tasks
                          THEN resp'[r] = 204 /\ tasks' = tasks \ {id}
                          ELSE resp'[r] = 404 /\ tasks' = tasks
                    /\ (e = "get_task" /\ id \notin tasks) =>
                          (resp'[r] = 404 /\ tasks' = tasks)
                    /\ (e = "update_task" /\ id \notin tasks /\ b \in {"other", "description", "title"}) =>
                          (resp'[r] = 404 /\ tasks' = tasks)
                    /\ (e = "update_task" /\ b = "empty") =>
                          (resp'[r] = 400 /\ tasks' = tasks /\ gauge' = gauge)]_vars
    /\ [][\A id \in TaskIds : Deleted(id) => Deleted(id)']_vars

\* Task 1 is deleted: its DELETE has been answered 204 and a PUT of the same
\* id whose body has no updatable field has been answered 404.
C22_Witness ==
    \E r, q \in Requests :
        /\ Deleted(1)
        /\ reqPc[r] = "responded" /\ req[r].endpoint = "delete_task"
        /\ req[r].id = 1 /\ resp[r] = 204
        /\ reqPc[q] = "responded" /\ req[q].endpoint = "update_task"
        /\ req[q].id = 1 /\ req[q].body = "other" /\ resp[q] = 404

====
